---- MODULE Spec2Model ----
(***************************************************************************)
(* A model of the system monitor of src/src/app.py: the start/stop        *)
(* lifecycle on the Tk main thread, the background monitoring_loop thread, *)
(* the chain of update_ui_labels callbacks scheduled with root.after, the  *)
(* GraphCanvas rolling histories and the session network baseline.         *)
(*                                                                         *)
(* Handlers that run on the Tk main thread (start_monitoring,              *)
(* update_ui_labels, the two halves of stop_monitoring around its join)    *)
(* are atomic with respect to each other; the statements of                *)
(* monitoring_loop interleave with them one at a time.                     *)
(***************************************************************************)
EXTENDS Integers, Sequences, FiniteSets, Bags, TLC

\* ------------------------------------------------------------------ bounds

\* Threads that can be created, i.e. successful starts in one run.
MaxThreads == 2
\* Capacity of the two graphs of the application (the source's default is 60).
GRAPH_HISTORY_POINTS == 2
\* Cap on process_update_counter: a cycle that would pass it is not taken.
MaxCycles == 2
\* GraphSpec: largest capacity of the canvas under test, and number of appends.
MaxCapacity == 3
MaxAppends == 5
\* NetSpec: the OS byte counters range over 0..MaxBytes.
MaxBytes == 3
\* ProcSpec: the most processes psutil.process_iter enumerates.
MaxProcs == 3
\* HelperSpec: the most entries of one temperature sensor, and the most days
\* of a duration.
MaxEntries == 2
MaxDays == 2

\* ------------------------------------------------------- program constants

DEFAULT_REFRESH_INTERVAL_SECONDS == 2
\* GraphCanvas.__init__'s default max_value.
DEFAULT_MAX_VALUE == 100
\* The floor of the inter-cycle delay, in ms.
MIN_REFRESH_MS == 500
\* The process list is rebuilt on the cycles whose counter is a multiple of this.
PROCESS_LIST_REFRESH_INTERVAL_MULTIPLIER == 1

VARIABLES
    \* module globals
    monitoring_thread,        \* 0 (None) or the id of the thread last started
    monitoring_active,        \* threading.Event, as its flag
    stop_monitoring_event,    \* threading.Event, as its flag
    network_stats_initial,    \* None or the baseline counters
    \* the threads running monitoring_loop, by id: the statement each is at
    thread_pc,
    \* the Tk main thread: in the event loop, or inside stop_monitoring's join
    main_pc,
    \* root.after: the bag of delays (ms) of the pending update_ui_labels callbacks
    after_queue,
    \* SystemMonitorApp
    interval_var,
    start_button, stop_button, interval_entry, disk_menu,
    status_var,
    process_update_counter,
    cpu_graph, mem_graph,
    cpu_overall_label, mem_ram_label, net_stats_label,
    \* the Disk tab: the partition selected, the usage label and the progress bar
    disk_var, disk_label, disk_progress,
    \* the rows of the process tree
    process_tree,
    \* the last main-thread handler that ran and how it returned
    last_event,
    \* GraphSpec: a GraphCanvas on its own and the raw values appended to it
    canvas, appended,
    \* ProcSpec: what psutil.process_iter enumerates, and <<>> or the one list
    \* get_processes_info has returned for it
    proc_table, processes,
    \* HelperSpec: a call of one of the helper functions, and <<>> or the one
    \* value it has returned
    call, returned

globals == <<monitoring_thread, monitoring_active, stop_monitoring_event,
             network_stats_initial>>
widgets == <<start_button, stop_button, interval_entry, disk_menu>>
graphs  == <<cpu_graph, mem_graph>>
disk    == <<disk_var, disk_label, disk_progress>>
\* What the tabs hold: the displayed readings, the Disk tab, the process tree.
labels  == <<cpu_overall_label, mem_ram_label, net_stats_label, disk, process_tree>>
helpers == <<call, returned>>
pure    == <<canvas, appended, proc_table, processes, helpers>>
vars    == <<globals, thread_pc, main_pc, after_queue, interval_var, widgets,
             status_var, process_update_counter, graphs, labels, last_event, pure>>

\* ------------------------------------------------------------------ values

None == [none |-> TRUE]
\* A label that shows "N/A": the network label, and a percentage label, which
\* holds <<>> or the one value it shows.
NA   == [na |-> TRUE]
NoReading == <<>>

Threads == 1..MaxThreads

NetIO(max) == [bytes_sent : 0..max, bytes_recv : 0..max]

Max(a, b) == IF a >= b THEN a ELSE b
Min(a, b) == IF a <= b THEN a ELSE b

\* ------------------------------------------------------ the interval entry

\* Python's float() on the texts a user can leave in the interval entry.  A
\* finite value is held in tenths of a millisecond, so that "0.0004" (0.4 ms)
\* is positive and still truncates to 0 ms.
float(text) ==
    CASE text = "-1"     -> [cls |-> "finite", v |-> -10000]
      [] text = "0"      -> [cls |-> "finite", v |-> 0]
      [] text = "0.0004" -> [cls |-> "finite", v |-> 4]
      [] text = "2"      -> [cls |-> "finite", v |-> 20000]
      [] text = "nan"    -> [cls |-> "nan", v |-> 0]
      [] text = "inf"    -> [cls |-> "inf", v |-> 0]
      [] OTHER           -> [cls |-> "ValueError", v |-> 0]

\* float(x) <= 0: false for nan and for +inf.
le_zero_strict(f) == f.cls = "finite" /\ f.v < 0

le_zero(f) == f.cls = "finite" /\ f.v <= 0

\* The delay of the next cycle, update_ui_labels' last statement:
\* int(float(interval) * 1000), floored at 500 ms; DEFAULT on ValueError
\* (float() of a non-number, int() of nan); int() of inf raises OverflowError,
\* which the handler does not catch, so nothing is scheduled.
refresh_delay(text) ==
    LET f == float(text) IN
    CASE f.cls = "finite" -> <<Max(MIN_REFRESH_MS, f.v \div 10)>>
      [] f.cls \in {"nan", "ValueError"} -> <<DEFAULT_REFRESH_INTERVAL_SECONDS * 1000>>
      [] OTHER -> <<>>

\* ------------------------------------------------------------- GraphCanvas

Zeros(n) == [i \in 1..n |-> 0]

\* A canvas whose history starts empty.
GraphCanvas_empty(max_value, points) ==
    [history_points |-> points, max_value |-> max_value, data_history |-> <<>>]

\* GraphCanvas.__init__
GraphCanvas(max_value, points) ==
    [history_points |-> points, max_value |-> max_value, data_history |-> Zeros(points)]

deque_append_unbounded(d, maxlen, x) == Append(d, x)

\* collections.deque(maxlen=n).append
deque_append(d, maxlen, x) ==
    IF maxlen = 0 THEN d
    ELSE IF Len(d) >= maxlen THEN Append(Tail(d), x)
    ELSE Append(d, x)

add_data_point_clamped(g, value) ==
    [g EXCEPT !.data_history =
        deque_append(g.data_history, g.history_points, Max(0, Min(value, g.max_value)))]

add_data_point(g, value) ==
    [g EXCEPT !.data_history =
        deque_append(g.data_history, g.history_points, Min(value, g.max_value))]

\* ------------------------------------------------------- get_network_stats

\* The baseline after the call: captured by the call itself when there is none.
baseline_after(initial, io) == IF initial = None THEN io ELSE initial

get_network_stats_clamped(initial, io) ==
    LET b == baseline_after(initial, io) IN
    [bytes_sent_session |-> Max(0, io.bytes_sent - b.bytes_sent),
     bytes_recv_session |-> Max(0, io.bytes_recv - b.bytes_recv)]

get_network_stats(initial, io) ==
    LET b == baseline_after(initial, io) IN
    [bytes_sent_session |-> io.bytes_sent - b.bytes_sent,
     bytes_recv_session |-> io.bytes_recv - b.bytes_recv]

\* -------------------------------------------------------------------- Init

\* The mount points get_disk_partitions returns on a machine that has some,
\* sorted, and the list _create_tabs uses when it returns none.
Partitions == <<"/", "/data">>
NoPartitions == <<"No partitions found">>

\* The selections for which update_ui_labels does not call the disk probe.
Placeholders == {"Select Partition", "No partitions found"}

\* The text of disk_label: the placeholder text, the error text for a
\* partition, or the usage of a partition.
DiskLabel(text, path, data) == [text |-> text, path |-> path, data |-> data]

\* The processes running while the application runs, as psutil enumerates them.
RunningProcs ==
    <<[pid |-> 1, raises |-> "none", cpu_percent |-> <<5>>, memory_percent |-> <<7>>],
      [pid |-> 2, raises |-> "AccessDenied", cpu_percent |-> <<>>, memory_percent |-> <<>>]>>

\* The application as SystemMonitorApp.__init__ leaves it, but for the
\* baseline, when get_disk_partitions returned disk_options.
SystemMonitorApp(disk_options) ==
    /\ disk_var = disk_options[1]
    /\ disk_label = DiskLabel("Disk: Select a partition", "", <<>>)
    /\ disk_progress = 0
    /\ process_tree = <<>>
    /\ monitoring_thread = 0
    /\ monitoring_active = FALSE
    /\ stop_monitoring_event = FALSE
    /\ thread_pc = [t \in Threads |-> "unborn"]
    /\ main_pc = "mainloop"
    /\ after_queue = EmptyBag
    /\ interval_var = "2"
    /\ start_button = "normal"
    /\ stop_button = "disabled"
    /\ interval_entry = "normal"
    /\ disk_menu = "normal"
    /\ status_var = "Ready. Click 'Start Monitoring'."
    /\ process_update_counter = 0
    /\ cpu_graph = GraphCanvas(DEFAULT_MAX_VALUE, GRAPH_HISTORY_POINTS)
    /\ mem_graph = GraphCanvas(DEFAULT_MAX_VALUE, GRAPH_HISTORY_POINTS)
    /\ cpu_overall_label = NoReading
    /\ mem_ram_label = NoReading
    /\ net_stats_label = NA
    /\ last_event = "init"

\* The application on a machine with partitions.
InitApp == SystemMonitorApp(Partitions)

Init ==
    /\ InitApp
    /\ network_stats_initial = None
    /\ canvas = GraphCanvas(DEFAULT_MAX_VALUE, GRAPH_HISTORY_POINTS)
    /\ appended = <<>>
    /\ proc_table = RunningProcs
    /\ processes = <<>>
    /\ call = <<>>
    /\ returned = <<>>

\* ------------------------------------------------- the user at the controls

\* Typing into the interval entry, possible while the entry is enabled.
set_interval(text) ==
    /\ main_pc = "mainloop"
    /\ interval_entry = "normal"
    /\ interval_var' = text
    /\ UNCHANGED <<globals, thread_pc, main_pc, after_queue, widgets, status_var,
                   process_update_counter, graphs, labels, last_event, pure>>

alive(t) == thread_pc[t] \notin {"unborn", "finished"}

created == {t \in Threads : thread_pc[t] # "unborn"}

\* start_monitoring returning early: a dialog is shown and nothing else happens.
start_reject(event) ==
    /\ last_event' = event
    /\ UNCHANGED <<globals, thread_pc, widgets, status_var>>

\* A start that leaves the interval entry editable.
start_accept_entry_enabled(io) ==
    /\ Cardinality(created) < MaxThreads
    /\ monitoring_active' = TRUE
    /\ stop_monitoring_event' = FALSE
    /\ network_stats_initial' = io
    /\ start_button' = "disabled"
    /\ stop_button' = "normal"
    /\ interval_entry' = "normal"
    /\ disk_menu' = "disabled"
    /\ status_var' = "Starting monitoring..."
    /\ monitoring_thread' = Cardinality(created) + 1
    /\ thread_pc' = [thread_pc EXCEPT ![Cardinality(created) + 1] = "baseline"]
    /\ last_event' = "start: started"

\* start_monitoring past its checks.
start_accept(io) ==
    /\ Cardinality(created) < MaxThreads
    /\ monitoring_active' = TRUE
    /\ stop_monitoring_event' = FALSE
    /\ network_stats_initial' = io
    /\ start_button' = "disabled"
    /\ stop_button' = "normal"
    /\ interval_entry' = "disabled"
    /\ disk_menu' = "disabled"
    /\ status_var' = "Starting monitoring..."
    /\ monitoring_thread' = Cardinality(created) + 1
    /\ thread_pc' = [thread_pc EXCEPT ![Cardinality(created) + 1] = "baseline"]
    /\ last_event' = "start: started"

\* What no path of start_monitoring touches.
start_frame ==
    UNCHANGED <<main_pc, after_queue, interval_var, process_update_counter, labels, pure>>

start_monitoring_reentrant(io) ==
    /\ main_pc = "mainloop"
    /\ IF float(interval_var).cls = "ValueError"
       THEN start_reject("start: invalid interval")
       ELSE IF le_zero(float(interval_var))
       THEN start_reject("start: interval not positive")
       ELSE start_accept(io)
    /\ UNCHANGED graphs
    /\ start_frame

start_monitoring_fresh_graphs(io) ==
    /\ main_pc = "mainloop"
    /\ IF monitoring_active
       THEN start_reject("start: already active") /\ UNCHANGED graphs
       ELSE IF float(interval_var).cls = "ValueError"
       THEN start_reject("start: invalid interval") /\ UNCHANGED graphs
       ELSE IF le_zero(float(interval_var))
       THEN start_reject("start: interval not positive") /\ UNCHANGED graphs
       ELSE /\ start_accept(io)
            /\ cpu_graph' = GraphCanvas(cpu_graph.max_value, cpu_graph.history_points)
            /\ mem_graph' = GraphCanvas(mem_graph.max_value, mem_graph.history_points)
    /\ start_frame

start_monitoring(io) ==
    /\ main_pc = "mainloop"
    /\ IF monitoring_active
       THEN start_reject("start: already active")
       ELSE IF float(interval_var).cls = "ValueError"
       THEN start_reject("start: invalid interval")
       ELSE IF le_zero(float(interval_var))
       THEN start_reject("start: interval not positive")
       ELSE start_accept(io)
    /\ UNCHANGED graphs
    /\ start_frame

\* stop_monitoring past its check, up to its join.
stop_signal ==
    /\ status_var' = "Stopping monitoring..."
    /\ stop_monitoring_event' = TRUE
    /\ monitoring_active' = FALSE
    /\ main_pc' = "join"
    /\ last_event' = "stop: joining"
    /\ UNCHANGED <<monitoring_thread, network_stats_initial>>

\* What stop_monitoring does not touch before its join.
stop_frame ==
    UNCHANGED <<thread_pc, after_queue, interval_var, widgets,
                process_update_counter, graphs, labels, pure>>

stop_monitoring_unguarded ==
    /\ main_pc = "mainloop"
    /\ stop_signal
    /\ stop_frame

\* stop_monitoring up to its join.
stop_monitoring ==
    /\ main_pc = "mainloop"
    /\ IF ~monitoring_active
       THEN /\ last_event' = "stop: idle"
            /\ UNCHANGED <<globals, main_pc, status_var>>
       ELSE stop_signal
    /\ stop_frame

\* A stop that gives up when the thread has not ended: the controls are
\* left as they were and the session is reported as still running.
stop_monitoring_join_fatal ==
    /\ main_pc = "join"
    /\ main_pc' = "mainloop"
    /\ IF alive(monitoring_thread)
       THEN /\ last_event' = "stop: failed"
            /\ UNCHANGED <<widgets, status_var>>
       ELSE /\ last_event' = "stop: stopped"
            /\ start_button' = "normal"
            /\ stop_button' = "disabled"
            /\ interval_entry' = "normal"
            /\ disk_menu' = "normal"
            /\ status_var' = "Monitoring stopped. Ready."
    /\ UNCHANGED <<globals, thread_pc, after_queue, interval_var,
                   process_update_counter, graphs, labels, pure>>

\* stop_monitoring from its join on: the join returns because the thread has
\* ended (or had ended before is_alive() was asked), or because the timeout
\* elapsed with the thread still alive, which logs a warning.
stop_monitoring_join ==
    /\ main_pc = "join"
    /\ last_event' = IF alive(monitoring_thread)
                     THEN "stop: thread unresponsive" ELSE "stop: stopped"
    /\ main_pc' = "mainloop"
    /\ start_button' = "normal"
    /\ stop_button' = "disabled"
    /\ interval_entry' = "normal"
    /\ disk_menu' = "normal"
    /\ status_var' = "Monitoring stopped. Ready."
    /\ UNCHANGED <<globals, thread_pc, after_queue, interval_var,
                   process_update_counter, graphs, labels, pure>>

\* ------------------------------------------------------ get_processes_info

\* The exceptions of proc.as_dict that get_processes_info catches.
ProcErrors == {"NoSuchProcess", "AccessDenied", "ZombieProcess"}

\* One enumerated process: as_dict raises, or returns the percentages the OS
\* reports, each <<>> (None) or the one value; pid stands for pid, name and
\* username.
ProcEntries ==
    [pid : {0}, raises : {"none"}, cpu_percent : {<<>>, <<5>>},
     memory_percent : {<<>>, <<7>>}]
    \cup [pid : {0}, raises : ProcErrors, cpu_percent : {<<>>}, memory_percent : {<<>>}]

\* The enumerations of psutil.process_iter: up to MaxProcs processes, the
\* pids distinct.
ProcTables ==
    UNION {{[i \in 1..n |-> [e[i] EXCEPT !.pid = i]] : e \in [1..n -> ProcEntries]}
           : n \in 0..MaxProcs}

as_dict(proc) ==
    [pid |-> proc.pid, cpu_percent |-> proc.cpu_percent,
     memory_percent |-> proc.memory_percent]

\* A builder that keeps a process whose read failed, with nothing to show.
RECURSIVE process_iter_loop_keeping(_, _)
process_iter_loop_keeping(procs, result) ==
    IF procs = <<>> THEN result
    ELSE LET p_info == as_dict(Head(procs)) IN
         process_iter_loop_keeping(Tail(procs),
            Append(result, [p_info EXCEPT !.cpu_percent = <<0>>]))

\* A builder that returns the percentages as the OS reports them.
RECURSIVE process_iter_loop_raw(_, _)
process_iter_loop_raw(procs, result) ==
    IF procs = <<>> THEN result
    ELSE IF Head(procs).raises \in ProcErrors
    THEN process_iter_loop_raw(Tail(procs), result)
    ELSE process_iter_loop_raw(Tail(procs), Append(result, as_dict(Head(procs))))

\* The loop of get_processes_info over the processes still to visit.
RECURSIVE process_iter_loop(_, _)
process_iter_loop(procs, result) ==
    IF procs = <<>> THEN result
    ELSE IF Head(procs).raises \in ProcErrors
    THEN process_iter_loop(Tail(procs), result)
    ELSE LET p_info == as_dict(Head(procs)) IN
         process_iter_loop(Tail(procs),
            Append(result, IF p_info.cpu_percent = <<>>
                           THEN [p_info EXCEPT !.cpu_percent = <<0>>]
                           ELSE p_info))

get_processes_info(procs) == process_iter_loop(procs, <<>>)

\* f"{value:.1f}%" on the percentages of the model.
format_percent(value) ==
    CASE value = 0 -> "0.0%"
      [] value = 5 -> "5.0%"
      [] value = 7 -> "7.0%"

\* The row update_process_list_ui inserts for one record.
process_row(p_info) ==
    [pid |-> p_info.pid,
     cpu_str |-> IF p_info.cpu_percent # <<>>
                 THEN format_percent(p_info.cpu_percent[1]) ELSE "0.0%",
     mem_str |-> IF p_info.memory_percent # <<>>
                 THEN format_percent(p_info.memory_percent[1]) ELSE "0.0%"]

\* The rows of the process tree after update_process_list_ui.
update_process_list_ui(procs) ==
    LET built == get_processes_info(procs) IN
    [i \in 1..Len(built) |-> process_row(built[i])]

\* ------------------------------------------------------- update_ui_labels

\* A callback that does not ask whether monitoring is active.
update_ui_labels_unchecked(rest, cpu, mem, io, raises) ==
    /\ cpu_overall_label' = <<cpu>>
    /\ cpu_graph' = add_data_point(cpu_graph, cpu)
    /\ mem_ram_label' = <<mem>>
    /\ mem_graph' = add_data_point(mem_graph, mem)
    /\ net_stats_label' = get_network_stats(network_stats_initial, io)
    /\ network_stats_initial' = baseline_after(network_stats_initial, io)
    /\ status_var' = "Monitoring..."
    /\ last_event' = "update: sampled"
    /\ after_queue' = rest
    /\ UNCHANGED <<monitoring_thread, monitoring_active, stop_monitoring_event,
                   process_update_counter, disk, process_tree>>

\* What psutil.disk_usage reports for a partition when it succeeds.
DiskReading == [percent |-> 40, used |-> 4, total |-> 10]

\* get_disk_usage: <<>> (None) when psutil.disk_usage raised, else the usage.
get_disk_usage(path, failed) == IF failed THEN <<>> ELSE <<DiskReading>>

\* A disk section that probes whatever is selected, placeholders included.
disk_display_text_probing(selected_disk, disk_data) ==
    IF disk_data # <<>>
    THEN DiskLabel("usage", selected_disk, disk_data)
    ELSE DiskLabel("Error", selected_disk, <<>>)

\* disk_display_text after the Disk section of update_ui_labels; disk_data is
\* what get_disk_usage returned, if it was called.
disk_display_text(selected_disk, disk_data) ==
    IF selected_disk \in Placeholders
    THEN DiskLabel("Disk: Select a partition", "", <<>>)
    ELSE IF disk_data # <<>>
    THEN DiskLabel("usage", selected_disk, disk_data)
    ELSE DiskLabel("Error", selected_disk, <<>>)

\* disk_percent_val after the Disk section of update_ui_labels.
disk_percent_val(selected_disk, disk_data) ==
    IF selected_disk \notin Placeholders /\ disk_data # <<>>
    THEN disk_data[1].percent
    ELSE 0

\* One cycle, run as a root.after callback; `rest` is the queue without the
\* callback that is running.  The probes return cpu, mem and io, and `raises`
\* names the probe that raises ("none" when none does): what was displayed
\* before the exception stays displayed, and the cycle's tail still runs.
\* With "disk" it is psutil.disk_usage that raises, inside get_disk_usage.
update_ui_labels(rest, cpu, mem, io, raises) ==
    IF ~monitoring_active
    THEN /\ after_queue' = rest
         /\ last_event' = "update: inactive"
         /\ UNCHANGED <<globals, status_var, process_update_counter, graphs, labels>>
    ELSE /\ raises \in {"none", "disk"} => process_update_counter < MaxCycles
         /\ IF raises = "cpu"
            THEN UNCHANGED <<cpu_overall_label, cpu_graph>>
            ELSE /\ cpu_overall_label' = <<cpu>>
                 /\ cpu_graph' = add_data_point(cpu_graph, cpu)
         /\ IF raises \in {"cpu", "mem"}
            THEN UNCHANGED <<mem_ram_label, mem_graph>>
            ELSE /\ mem_ram_label' = <<mem>>
                 /\ mem_graph' = add_data_point(mem_graph, mem)
         /\ IF raises \in {"cpu", "mem"}
            THEN UNCHANGED <<disk_label, disk_progress>>
            ELSE LET disk_data == IF disk_var \in Placeholders
                                  THEN <<>>
                                  ELSE get_disk_usage(disk_var, raises = "disk")
                 IN /\ disk_label' = disk_display_text(disk_var, disk_data)
                    /\ disk_progress' = disk_percent_val(disk_var, disk_data)
         /\ IF raises \in {"cpu", "mem", "net"}
            THEN UNCHANGED <<network_stats_initial, net_stats_label,
                             process_tree, process_update_counter>>
            ELSE /\ network_stats_initial' = baseline_after(network_stats_initial, io)
                 /\ net_stats_label' = get_network_stats(network_stats_initial, io)
                 /\ process_tree' =
                        IF process_update_counter
                               % PROCESS_LIST_REFRESH_INTERVAL_MULTIPLIER = 0
                        THEN update_process_list_ui(proc_table)
                        ELSE process_tree
                 /\ process_update_counter' = process_update_counter + 1
         /\ UNCHANGED disk_var
         /\ status_var' = IF raises \in {"none", "disk"}
                          THEN "Monitoring..." ELSE "Error: ..."
         /\ last_event' = IF raises \in {"none", "disk"}
                          THEN "update: sampled" ELSE "update: error"
         /\ after_queue' =
                IF ~stop_monitoring_event /\ refresh_delay(interval_var) # <<>>
                THEN rest (+) SetToBag({refresh_delay(interval_var)[1]})
                ELSE rest
         /\ UNCHANGED <<monitoring_thread, monitoring_active, stop_monitoring_event>>

\* The Tk event loop runs a pending callback.
fire_update(delay, cpu, mem, io, raises) ==
    /\ main_pc = "mainloop"
    /\ BagIn(delay, after_queue)
    /\ update_ui_labels(after_queue (-) SetToBag({delay}), cpu, mem, io, raises)
    /\ UNCHANGED <<thread_pc, main_pc, interval_var, widgets, pure>>

\* --------------------------------------------------------- monitoring_loop

\* network_stats_initial = psutil.net_io_counters()
monitoring_loop_baseline(t, io) ==
    /\ thread_pc[t] = "baseline"
    /\ network_stats_initial' = io
    /\ thread_pc' = [thread_pc EXCEPT ![t] = "clear"]
    /\ UNCHANGED <<monitoring_thread, monitoring_active, stop_monitoring_event,
                   main_pc, after_queue, interval_var, widgets, status_var,
                   process_update_counter, graphs, labels, last_event, pure>>

\* stop_monitoring_event.clear()
monitoring_loop_clear(t) ==
    /\ thread_pc[t] = "clear"
    /\ stop_monitoring_event' = FALSE
    /\ thread_pc' = [thread_pc EXCEPT ![t] = "counter"]
    /\ UNCHANGED <<monitoring_thread, monitoring_active, network_stats_initial,
                   main_pc, after_queue, interval_var, widgets, status_var,
                   process_update_counter, graphs, labels, last_event, pure>>

\* app_instance.process_update_counter = 0
monitoring_loop_counter(t) ==
    /\ thread_pc[t] = "counter"
    /\ process_update_counter' = 0
    /\ thread_pc' = [thread_pc EXCEPT ![t] = "after"]
    /\ UNCHANGED <<globals, main_pc, after_queue, interval_var, widgets, status_var,
                   graphs, labels, last_event, pure>>

\* A thread that never schedules the first cycle.
monitoring_loop_no_after(t) ==
    /\ thread_pc[t] = "after"
    /\ thread_pc' = [thread_pc EXCEPT ![t] = "wait"]
    /\ UNCHANGED <<globals, main_pc, after_queue, interval_var, widgets, status_var,
                   process_update_counter, graphs, labels, last_event, pure>>

\* A thread that samples by itself instead of handing the cycle to the event loop.
monitoring_loop_samples(t) ==
    /\ thread_pc[t] = "after"
    /\ cpu_graph' = add_data_point(cpu_graph, 50)
    /\ mem_graph' = add_data_point(mem_graph, 30)
    /\ thread_pc' = [thread_pc EXCEPT ![t] = "wait"]
    /\ UNCHANGED <<globals, main_pc, after_queue, interval_var, widgets, status_var,
                   process_update_counter, labels, last_event, pure>>

\* app_instance.root.after(0, lambda: update_ui_labels(app_instance))
monitoring_loop_after(t) ==
    /\ thread_pc[t] = "after"
    /\ after_queue' = after_queue (+) SetToBag({0})
    /\ thread_pc' = [thread_pc EXCEPT ![t] = "wait"]
    /\ UNCHANGED <<globals, main_pc, interval_var, widgets, status_var,
                   process_update_counter, graphs, labels, last_event, pure>>

\* while not stop_monitoring_event.is_set(): time.sleep(0.1)
monitoring_loop_wait(t) ==
    /\ thread_pc[t] = "wait"
    /\ thread_pc' = IF stop_monitoring_event
                    THEN [thread_pc EXCEPT ![t] = "finished"] ELSE thread_pc
    /\ UNCHANGED <<globals, main_pc, after_queue, interval_var, widgets, status_var,
                   process_update_counter, graphs, labels, last_event, pure>>

monitoring_loop(t, io) ==
    \/ monitoring_loop_baseline(t, io)
    \/ monitoring_loop_clear(t)
    \/ monitoring_loop_counter(t)
    \/ monitoring_loop_after(t)
    \/ monitoring_loop_wait(t)

\* ------------------------------------------------- the lifecycle: Spec

\* What the environment hands the lifecycle: the texts left in the interval
\* entry (not a number, not positive, below the floor, the default, infinite)
\* and the probes' readings.
IntervalTexts == {"abc", "-1", "0", "0.0004", "2", "inf"}
CpuReadings == {50}
MemReadings == {30}
NetReadings == {[bytes_sent |-> 0, bytes_recv |-> 0], [bytes_sent |-> 1, bytes_recv |-> 2]}

Lifecycle(texts, readings, raising) ==
    \/ \E text \in texts : set_interval(text)
    \/ \E io \in readings : start_monitoring(io)
    \/ stop_monitoring
    \/ stop_monitoring_join
    \/ \E delay \in BagToSet(after_queue), cpu \in CpuReadings, mem \in MemReadings,
          io \in readings, raises \in raising :
            fire_update(delay, cpu, mem, io, raises)
    \/ \E t \in Threads, io \in readings : monitoring_loop(t, io)

\* The lifecycle with probes that do not raise.
Next == Lifecycle(IntervalTexts, NetReadings, {"none"})

Spec == Init /\ [][Next]_vars

\* ------------------------------------- the lifecycle when scheduled: FairSpec

\* The intervals start_monitoring accepts, and one reading of the counters.
ValidTexts == {"0.0004", "2", "nan", "inf"}
OneReading == {[bytes_sent |-> 0, bytes_recv |-> 0]}

FairNext == Lifecycle(ValidTexts, OneReading, {"none"})

\* What the scheduling of the code guarantees: a started thread keeps being
\* run by the interpreter, the Tk event loop runs a callback that is due, and
\* join(timeout=1.0) returns.  The user owes nothing.
Fairness ==
    /\ \A t \in Threads : WF_vars(\E io \in OneReading : monitoring_loop(t, io))
    /\ WF_vars(\E delay \in BagToSet(after_queue), cpu \in CpuReadings,
                  mem \in MemReadings, io \in OneReading :
                    fire_update(delay, cpu, mem, io, "none"))
    /\ WF_vars(stop_monitoring_join)

FairSpec == Init /\ [][FairNext]_vars /\ Fairness

\* ------------------------------------------- a GraphCanvas alone: GraphSpec

\* Values handed to add_data_point: below 0, inside the range, at max_value
\* and above it.
GraphValues == {-5, 10, 100, 200}

GraphInit ==
    /\ InitApp
    /\ network_stats_initial = None
    /\ \E points \in 1..MaxCapacity : canvas = GraphCanvas(DEFAULT_MAX_VALUE, points)
    /\ appended = <<>>
    /\ proc_table = <<>>
    /\ processes = <<>>
    /\ call = <<>>
    /\ returned = <<>>

\* canvas.add_data_point(value), with the raw value kept in `appended`.
graph_append(value) ==
    /\ Len(appended) < MaxAppends
    /\ canvas' = add_data_point(canvas, value)
    /\ appended' = Append(appended, value)
    /\ UNCHANGED <<globals, thread_pc, main_pc, after_queue, interval_var, widgets,
                   status_var, process_update_counter, graphs, labels, last_event,
                   proc_table, processes, helpers>>

GraphNext == \E value \in GraphValues : graph_append(value)

GraphSpec == GraphInit /\ [][GraphNext]_vars

\* ------------------------------------------- get_network_stats alone: NetSpec

NetInit ==
    /\ InitApp
    /\ network_stats_initial \in {None} \cup NetIO(MaxBytes)
    /\ canvas = GraphCanvas(DEFAULT_MAX_VALUE, GRAPH_HISTORY_POINTS)
    /\ appended = <<>>
    /\ proc_table = <<>>
    /\ processes = <<>>
    /\ call = <<>>
    /\ returned = <<>>

\* net_data = get_network_stats(), displayed, when the counters read are io.
net_probe(io) ==
    /\ network_stats_initial' = baseline_after(network_stats_initial, io)
    /\ net_stats_label' = get_network_stats(network_stats_initial, io)
    /\ UNCHANGED <<monitoring_thread, monitoring_active, stop_monitoring_event,
                   thread_pc, main_pc, after_queue, interval_var, widgets, status_var,
                   process_update_counter, graphs, cpu_overall_label, mem_ram_label,
                   disk, process_tree, last_event, pure>>

NetNext == \E io \in NetIO(MaxBytes) : net_probe(io)

NetSpec == NetInit /\ [][NetNext]_vars

\* ------------------------------- the lifecycle with failing probes: ErrSpec

\* Intervals start_monitoring accepts, and the probe of a cycle that raises.
ErrTexts == {"0.0004", "2", "inf"}
Raising == {"none", "cpu", "mem", "net"}
Failing == Raising \ {"none"}

ErrNext == Lifecycle(ErrTexts, OneReading, Raising)

ErrSpec == Init /\ [][ErrNext]_vars

\* ----------------------------------- get_processes_info alone: ProcSpec

ProcInit ==
    /\ InitApp
    /\ network_stats_initial = None
    /\ canvas = GraphCanvas(DEFAULT_MAX_VALUE, GRAPH_HISTORY_POINTS)
    /\ appended = <<>>
    /\ proc_table \in ProcTables
    /\ processes = <<>>
    /\ call = <<>>
    /\ returned = <<>>

\* processes = get_processes_info(), over the enumeration proc_table.
build_process_list ==
    /\ processes = <<>>
    /\ processes' = <<get_processes_info(proc_table)>>
    /\ UNCHANGED <<globals, thread_pc, main_pc, after_queue, interval_var, widgets,
                   status_var, process_update_counter, graphs, labels, last_event,
                   canvas, appended, proc_table, helpers>>

ProcNext == build_process_list

ProcSpec == ProcInit /\ [][ProcNext]_vars

\* ------------------------------------------------- get_cpu_temperatures

\* Sensor names, the first in priority_keys and the second not; entry labels:
\* empty, naming the CPU, naming something else, and None ("<None>"), which
\* has no lower().
SensorNames == {"coretemp", "nvme"}
SensorLabels == {"", "Core 0", "Composite", "<None>"}
priority_keys == {"coretemp", "k10temp", "cpu_thermal", "acpitz"}

SensorEntries ==
    UNION {[1..n -> [label : SensorLabels, current : {40}]] : n \in 0..MaxEntries}

\* What psutil.sensors_temperatures() can do: raise, return None, or return
\* a table (a dict, in its order) of sensors with distinct names.
SensorTables ==
    {<<>>}
    \cup {<<[name |-> a, entries |-> e]>> : a \in SensorNames, e \in SensorEntries}
    \cup UNION {{<<[name |-> a, entries |-> e], [name |-> b, entries |-> f]>> :
                    b \in SensorNames \ {a}, e \in SensorEntries, f \in SensorEntries}
                 : a \in SensorNames}

SensorProbes ==
    {[outcome |-> "raises", table |-> <<>>], [outcome |-> "None", table |-> <<>>]}
    \cup [outcome : {"table"}, table : SensorTables]

\* temps[key] = value on a dict held as a function.
dict_set(d, key, value) ==
    [k \in DOMAIN d \cup {key} |-> IF k = key THEN value ELSE d[k]]

\* any(k in entry.label.lower() for k in ["cpu", "core", "package"])
is_cpu_label(label) == label = "Core 0"

\* The inner loop over one sensor's entries; a None label raises.
RECURSIVE scan_entries(_, _, _)
scan_entries(temps, name, entries) ==
    IF entries = <<>> THEN [raised |-> FALSE, temps |-> temps]
    ELSE LET entry == Head(entries) IN
         IF entry.label = "<None>" THEN [raised |-> TRUE, temps |-> temps]
         ELSE IF name \in priority_keys \/ is_cpu_label(entry.label)
         THEN scan_entries(
                dict_set(temps, <<IF entry.label # "" THEN entry.label ELSE name, name>>,
                         entry.current),
                name, Tail(entries))
         ELSE scan_entries(temps, name, Tail(entries))

\* The outer loop over the sensors of the table.
RECURSIVE scan_sensors(_, _)
scan_sensors(temps, sensor_temps) ==
    IF sensor_temps = <<>> THEN [raised |-> FALSE, temps |-> temps]
    ELSE LET r == scan_entries(temps, Head(sensor_temps).name, Head(sensor_temps).entries) IN
         IF r.raised THEN r ELSE scan_sensors(r.temps, Tail(sensor_temps))

\* The fallback: the first entry of the first sensor, when nothing was kept.
fallback(temps, sensor_temps) ==
    LET name == sensor_temps[1].name
        entries == sensor_temps[1].entries IN
    IF DOMAIN temps = {} /\ entries # <<>>
    THEN dict_set(temps,
            <<IF entries[1].label \notin {"", "<None>"} THEN entries[1].label ELSE name,
              "Fallback">>,
            entries[1].current)
    ELSE temps

\* A probe that returns what it collected, also when that is nothing.
get_cpu_temperatures_no_marker(probe) ==
    IF probe.outcome = "raises" THEN dict_set(<<>>, <<"error">>, "Unavailable")
    ELSE IF probe.table = <<>>
    THEN dict_set(<<>>, <<"error">>, "Not supported or no sensors.")
    ELSE LET r == scan_sensors(<<>>, probe.table) IN
         IF r.raised THEN dict_set(<<>>, <<"error">>, "Unavailable")
         ELSE fallback(r.temps, probe.table)

get_cpu_temperatures(probe) ==
    IF probe.outcome = "raises" THEN dict_set(<<>>, <<"error">>, "Unavailable")
    ELSE IF probe.table = <<>>
    THEN dict_set(<<>>, <<"error">>, "Not supported or no sensors.")
    ELSE LET r == scan_sensors(<<>>, probe.table) IN
         IF r.raised THEN dict_set(<<>>, <<"error">>, "Unavailable")
         ELSE LET temps == fallback(r.temps, probe.table) IN
              IF DOMAIN temps # {} THEN temps
              ELSE dict_set(<<>>, <<"info">>, "No CPU temperature sensors identified.")

\* ----------------------------------------------------- bytes_to_readable

\* 1024, 1024**2 and 1024**3.
KiB == 1024
MiB == 1048576
GiB == 1073741824

\* A byte count b = gib * 1024**3 + rest with 0 <= rest < 1024**3, held in
\* two parts because it exceeds the checker's integers; gib < 0 for b < 0.
Bytes(n) == [gib |-> 0, rest |-> n]

\* Round-half-to-even of quotient + rem/(2 * half), as the :.2f format does
\* on a binary fraction, which a division by a power of 1024 yields exactly.
RoundHalfEven(quotient, rem, half) ==
    IF rem > half \/ (rem = half /\ quotient % 2 = 1) THEN quotient + 1 ELSE quotient

\* 100 * x = scaled * 1024**2 + rem, for 0 <= x < 1024**3.
Scaled100(x) ==
    LET high == x \div MiB
        low == x % MiB IN
    [scaled |-> 100 * high + (100 * low) \div MiB, rem |-> (100 * low) % MiB]

\* f"{x / 1024:.2f}" in hundredths, for 0 <= x < 1024**2.
HundredthsOfKiB(x) == RoundHalfEven((100 * x) \div KiB, (100 * x) % KiB, KiB \div 2)

\* f"{x / 1024**2:.2f}" in hundredths, for 0 <= x < 1024**3.
HundredthsOfMiB(x) ==
    RoundHalfEven(Scaled100(x).scaled, Scaled100(x).rem, MiB \div 2)

\* f"{b / 1024**3:.2f}" in hundredths, for b >= 0.
HundredthsOfGiB(b) ==
    LET s == Scaled100(b.rest) IN
    100 * b.gib
        + RoundHalfEven(s.scaled \div KiB, (s.scaled % KiB) * MiB + s.rem, GiB \div 2)

\* A rendering that switches units one power of 1024 late.
bytes_to_readable_late(b) ==
    IF b.gib < 0 \/ (b.gib = 0 /\ b.rest <= KiB)
    THEN [unit |-> "B", hundredths |-> 0, count |-> b]
    ELSE IF b.gib = 0 /\ b.rest <= MiB
    THEN [unit |-> "KB", hundredths |-> HundredthsOfKiB(b.rest), count |-> Bytes(0)]
    ELSE IF b.gib = 0
    THEN [unit |-> "MB", hundredths |-> HundredthsOfMiB(b.rest), count |-> Bytes(0)]
    ELSE [unit |-> "GB", hundredths |-> HundredthsOfGiB(b), count |-> Bytes(0)]

\* The text returned: the unit, and the number before it, an integer count
\* for B and a value with two decimals (in hundredths) for KB, MB and GB.
bytes_to_readable(b) ==
    IF b.gib < 0 \/ (b.gib = 0 /\ b.rest < KiB)
    THEN [unit |-> "B", hundredths |-> 0, count |-> b]
    ELSE IF b.gib = 0 /\ b.rest < MiB
    THEN [unit |-> "KB", hundredths |-> HundredthsOfKiB(b.rest), count |-> Bytes(0)]
    ELSE IF b.gib = 0
    THEN [unit |-> "MB", hundredths |-> HundredthsOfMiB(b.rest), count |-> Bytes(0)]
    ELSE [unit |-> "GB", hundredths |-> HundredthsOfGiB(b), count |-> Bytes(0)]

\* Byte counts around every threshold, exact multiples, values between, a
\* rounding tie (1152 = 1.125 KB), and a negative count (a session delta
\* after a counter reset).
ByteCounts ==
    {Bytes(n) : n \in {0, 500, KiB - 1, KiB, KiB + 1, 1152, 1500, 2 * KiB,
                        MiB - 1, MiB, MiB + 1, 5 * MiB, 5 * MiB + 512 * KiB,
                        GiB - 1}}
    \cup {[gib |-> g, rest |-> r] : g \in {1, 3, 1024}, r \in {0, 1, 512 * MiB}}
    \cup {[gib |-> -1, rest |-> GiB - 5], [gib |-> -1, rest |-> GiB - 5 * MiB]}

\* ------------------------------------------------------- format_timedelta

\* divmod(a, b) for a >= 0, b > 0.
divmod(a, b) == <<a \div b, a % b>>

\* The decimal digits of n >= 0, most significant first: f"{n}".
RECURSIVE Digits(_)
Digits(n) == IF n < 10 THEN <<n>> ELSE Append(Digits(n \div 10), n % 10)

\* f"{n:02}": the digits of n, zero-padded on the left to width 2.
Pad02(n) == IF n < 10 THEN <<0, n>> ELSE Digits(n)

\* A rendering without padding.
format_timedelta_unpadded(td) ==
    LET h_rem == divmod(td.seconds, 3600)
        m_s == divmod(h_rem[2], 60) IN
    [d |-> Digits(td.days), h |-> Digits(h_rem[1]),
     m |-> Digits(m_s[1]), s |-> Digits(m_s[2])]

\* The text returned, f"{d}d {h:02}:{m:02}:{s:02}", as its four digit groups.
format_timedelta(td) ==
    LET h_rem == divmod(td.seconds, 3600)
        m_s == divmod(h_rem[2], 60) IN
    [d |-> Digits(td.days), h |-> Pad02(h_rem[1]),
     m |-> Pad02(m_s[1]), s |-> Pad02(m_s[2])]

\* Non-negative durations as datetime.timedelta holds them: days, and
\* 0 <= seconds < 86400 within the day (microseconds are not read).
Durations ==
    [days : 0..MaxDays \cup {12},
     seconds : {0, 4, 45, 59, 60, 61, 599, 600, 3599, 3600, 3661, 7384, 35999,
                36000, 43200, 86399}]

\* ------------------------------------------- the helpers alone: HelperSpec

TemperatureCalls == [fn : {"get_cpu_temperatures"}, probe : SensorProbes]

ReadableCalls == [fn : {"bytes_to_readable"}, b : ByteCounts]

TimedeltaCalls == [fn : {"format_timedelta"}, td : Durations]

HelperCalls == TemperatureCalls \cup ReadableCalls \cup TimedeltaCalls

HelperInit ==
    /\ InitApp
    /\ network_stats_initial = None
    /\ canvas = GraphCanvas(DEFAULT_MAX_VALUE, GRAPH_HISTORY_POINTS)
    /\ appended = <<>>
    /\ proc_table = <<>>
    /\ processes = <<>>
    /\ call \in {<<c>> : c \in HelperCalls}
    /\ returned = <<>>

helper_frame ==
    UNCHANGED <<globals, thread_pc, main_pc, after_queue, interval_var, widgets,
                status_var, process_update_counter, graphs, labels, last_event,
                canvas, appended, proc_table, processes, call>>

\* temps = get_cpu_temperatures()
call_get_cpu_temperatures ==
    /\ returned = <<>>
    /\ call[1].fn = "get_cpu_temperatures"
    /\ returned' = <<get_cpu_temperatures(call[1].probe)>>
    /\ helper_frame

\* bytes_to_readable(b)
call_bytes_to_readable ==
    /\ returned = <<>>
    /\ call[1].fn = "bytes_to_readable"
    /\ returned' = <<bytes_to_readable(call[1].b)>>
    /\ helper_frame

\* format_timedelta(td)
call_format_timedelta ==
    /\ returned = <<>>
    /\ call[1].fn = "format_timedelta"
    /\ returned' = <<format_timedelta(call[1].td)>>
    /\ helper_frame

HelperNext ==
    \/ call_get_cpu_temperatures
    \/ call_bytes_to_readable
    \/ call_format_timedelta

HelperSpec == HelperInit /\ [][HelperNext]_vars

\* Everything but last_event, which every main-thread handler sets.
\* ------------------------ the whole window, closing included: AppSpec

\* The entries of the disk menu: disk_options.
disk_options == IF disk_var \in Placeholders THEN NoPartitions ELSE Partitions

\* The user picks an entry of the disk menu, possible while it is enabled.
on_disk_select(selected_value) ==
    /\ main_pc = "mainloop"
    /\ disk_menu = "normal"
    /\ disk_var' = selected_value
    /\ UNCHANGED <<globals, thread_pc, main_pc, after_queue, interval_var, widgets,
                   status_var, process_update_counter, graphs, cpu_overall_label,
                   mem_ram_label, net_stats_label, disk_label, disk_progress,
                   process_tree, last_event, pure>>

\* on_closing up to the join of the stop_monitoring it calls, or to its end:
\* the dialog is shown only while monitoring is active, and `answer` is the
\* user's; root.destroy() drops the pending callbacks.
on_closing(answer) ==
    /\ main_pc = "mainloop"
    /\ IF monitoring_active /\ answer
       THEN /\ status_var' = "Stopping monitoring..."
            /\ stop_monitoring_event' = TRUE
            /\ monitoring_active' = FALSE
            /\ main_pc' = "closing"
            /\ last_event' = "close: joining"
            /\ UNCHANGED <<monitoring_thread, network_stats_initial, after_queue>>
       ELSE /\ main_pc' = "destroyed"
            /\ after_queue' = EmptyBag
            /\ last_event' = IF monitoring_active THEN "close: declined" ELSE "close: idle"
            /\ UNCHANGED <<globals, status_var>>
    /\ UNCHANGED <<thread_pc, interval_var, widgets, process_update_counter, graphs,
                   labels, pure>>

\* on_closing from the join of its stop_monitoring on, then root.destroy().
on_closing_destroy ==
    /\ main_pc = "closing"
    /\ last_event' = IF alive(monitoring_thread)
                     THEN "close: thread unresponsive" ELSE "close: stopped"
    /\ main_pc' = "destroyed"
    /\ after_queue' = EmptyBag
    /\ start_button' = "normal"
    /\ stop_button' = "disabled"
    /\ interval_entry' = "normal"
    /\ disk_menu' = "normal"
    /\ status_var' = "Monitoring stopped. Ready."
    /\ UNCHANGED <<globals, thread_pc, interval_var, process_update_counter, graphs,
                   labels, pure>>

\* The application on a machine with or without partitions.
AppInit ==
    /\ \E found \in {Partitions, NoPartitions} : SystemMonitorApp(found)
    /\ network_stats_initial = None
    /\ canvas = GraphCanvas(DEFAULT_MAX_VALUE, GRAPH_HISTORY_POINTS)
    /\ appended = <<>>
    /\ proc_table = RunningProcs
    /\ processes = <<>>
    /\ call = <<>>
    /\ returned = <<>>

\* What can go wrong in a cycle: a probe raises, or psutil.disk_usage does.
Outcomes == Raising \cup {"disk"}

AppNext ==
    \/ Lifecycle({"2"}, OneReading, Outcomes)
    \/ \E i \in DOMAIN disk_options : on_disk_select(disk_options[i])
    \/ \E answer \in BOOLEAN : on_closing(answer)
    \/ on_closing_destroy

AppSpec == AppInit /\ [][AppNext]_vars

program == <<globals, thread_pc, main_pc, after_queue, interval_var, widgets,
             status_var, process_update_counter, graphs, labels, pure>>

\* ------------------------------------------------------------------ claims

\* C1: start_monitoring called while monitoring is active reports "already
\* active" and does nothing else: no thread is created, the network baseline
\* is not re-captured and no callback is scheduled.
C1_StartWhileActiveIsNoOp ==
    [][\A io \in NetReadings :
        (monitoring_active /\ start_monitoring(io))
            => (last_event' = "start: already active" /\ UNCHANGED program)]_vars

C1_Witness ==
    /\ monitoring_active
    /\ last_event = "start: already active"
    /\ Cardinality(created) = 1

\* C3: start_monitoring with an interval that is not a number, or is <= 0, is
\* rejected before anything is started: monitoring_active stays clear, no
\* thread is created, the baseline is not captured and the controls keep
\* their idle state.
InvalidInterval(text) ==
    \/ float(text).cls = "ValueError"
    \/ float(text).cls = "finite" /\ float(text).v <= 0

C3_InvalidIntervalRejected ==
    [][\A io \in NetReadings :
        (~monitoring_active /\ InvalidInterval(interval_var) /\ start_monitoring(io))
            => /\ last_event' \in {"start: invalid interval", "start: interval not positive"}
               /\ ~monitoring_active'
               /\ start_button' = "normal" /\ stop_button' = "disabled"
               /\ UNCHANGED program]_vars

C3_Witness ==
    /\ last_event = "start: interval not positive"
    /\ interval_var = "0"
    /\ ~monitoring_active
    /\ Cardinality(created) = 1

C3_WitnessNotANumber ==
    /\ last_event = "start: invalid interval"
    /\ interval_var = "abc"

\* C4: stop_monitoring called while idle changes nothing: flags, thread
\* reference, status text and control states stay as they are.
C4_StopWhileIdleIsNoOp ==
    [][(~monitoring_active /\ stop_monitoring)
            => (last_event' = "stop: idle" /\ UNCHANGED program)]_vars

C4_Witness ==
    /\ last_event = "stop: idle"
    /\ status_var = "Monitoring stopped. Ready."

C8_BaselineFixedDuringSession ==
    [][(monitoring_active /\ status_var = "Monitoring...")
            => network_stats_initial' = network_stats_initial]_vars

\* The last n elements of a sequence.
LastN(seq, n) == SubSeq(seq, Len(seq) - n + 1, Len(seq))

\* The values a canvas of max_value m was handed, as add_data_point stores them.
Stored(raw, m) == [i \in 1..Len(raw) |-> IF raw[i] > m THEN m ELSE raw[i]]

\* C5: the history never holds more than its capacity, and it is the last
\* `capacity` elements of the baseline fill followed by the appended values as
\* stored, in append order; so after more than `capacity` appends it is
\* exactly the last `capacity` appended values.
C5_BoundedFifo ==
    LET c == canvas.history_points
        h == canvas.data_history IN
    /\ Len(h) <= c
    /\ h = LastN(Zeros(c) \o Stored(appended, canvas.max_value), c)
    /\ Len(appended) > c => h = LastN(Stored(appended, canvas.max_value), c)

C5_Witness ==
    /\ canvas.history_points = 2
    /\ appended = <<10, 200, -5, 10>>
    /\ canvas.data_history = <<-5, 10>>

RECURSIVE AddAll(_, _)
AddAll(g, values) ==
    IF values = <<>> THEN g ELSE AddAll(add_data_point(g, Head(values)), Tail(values))

C9_DeltaIsCurrentMinusBaseline ==
    [][\A io \in NetIO(MaxBytes) :
        net_probe(io)
            => /\ network_stats_initial' # None
               /\ net_stats_label'.bytes_sent_session
                    = io.bytes_sent - network_stats_initial'.bytes_sent
               /\ net_stats_label'.bytes_recv_session
                    = io.bytes_recv - network_stats_initial'.bytes_recv
               /\ io = network_stats_initial'
                    => net_stats_label' = [bytes_sent_session |-> 0, bytes_recv_session |-> 0]
               /\ network_stats_initial # None
                    => network_stats_initial' = network_stats_initial]_vars

C9_Witness ==
    /\ network_stats_initial = [bytes_sent |-> 3, bytes_recv |-> 1]
    /\ net_stats_label = [bytes_sent_session |-> -2, bytes_recv_session |-> 1]

C9_WitnessZero ==
    /\ network_stats_initial = [bytes_sent |-> 2, bytes_recv |-> 1]
    /\ net_stats_label = [bytes_sent_session |-> 0, bytes_recv_session |-> 0]

\* A thread the caller has asked to stop: stop_monitoring has run since the
\* thread was started (a later thread can only have been started after it).
StopRequested(t) == alive(t) /\ (~monitoring_active \/ monitoring_thread # t)

\* C2, as claimed: a thread that has been asked to stop ends.
C2_StoppedThreadEnds ==
    \A t \in Threads : StopRequested(t) ~> (thread_pc[t] = "finished")

\* C10: a started session gets its first cycle without a request from the
\* consumer and without waiting for the interval: once the thread has reached
\* its wait loop a callback with delay 0 is pending until a cycle has run, and
\* a cycle does run unless the session is stopped first.
C10_FirstCycleWithoutDelay ==
    /\ [](\A t \in Threads :
            (/\ monitoring_active /\ monitoring_thread = t
             /\ status_var = "Starting monitoring..."
             /\ thread_pc[t] \in {"wait", "finished"})
                => BagIn(0, after_queue))
    /\ (monitoring_active /\ status_var = "Starting monitoring...")
            ~> (status_var # "Starting monitoring...")

C10_Witness ==
    /\ monitoring_active
    /\ last_event = "update: sampled"
    /\ process_update_counter = 1
    /\ interval_var = "0.0004"
    /\ cpu_graph.data_history[GRAPH_HISTORY_POINTS] = 50

\* C11, as claimed: a cycle in which a probe raises, run while monitoring is
\* active and not stopped, contains the exception (the status shows the
\* error, monitoring stays active) and schedules the next cycle: the callback
\* that ran is replaced by a pending successor.
C11_ErrorCycleIsRescheduled ==
    [][\A delay \in BagToSet(after_queue), cpu \in CpuReadings, mem \in MemReadings,
          io \in OneReading, raises \in Failing :
        (/\ monitoring_active /\ ~stop_monitoring_event
         /\ fire_update(delay, cpu, mem, io, raises))
            => /\ status_var' = "Error: ..."
               /\ monitoring_active'
               /\ BagCardinality(after_queue') = BagCardinality(after_queue)]_vars

\* C12, as claimed: in a cycle in which exactly one probe raises, every other
\* metric is still sampled and published: its label shows this cycle's
\* reading and its history has received it.
C12_OtherFieldsStillPublished ==
    [][\A delay \in BagToSet(after_queue), cpu \in CpuReadings, mem \in MemReadings,
          io \in OneReading, raises \in Failing :
        (monitoring_active /\ fire_update(delay, cpu, mem, io, raises))
            => /\ raises # "cpu" => /\ cpu_overall_label' = <<cpu>>
                                    /\ cpu_graph' = add_data_point(cpu_graph, cpu)
               /\ raises # "mem" => /\ mem_ram_label' = <<mem>>
                                    /\ mem_graph' = add_data_point(mem_graph, mem)
               /\ raises # "net" =>
                    net_stats_label' = get_network_stats(network_stats_initial, io)]_vars

\* C13, as claimed: between callbacks the published fields all come from one
\* cycle: no state shows a reading in one field while another field still
\* shows what it showed before that cycle (here: nothing yet).
C13_SnapshotFromOneCycle ==
    main_pc = "mainloop" =>
        \/ /\ cpu_overall_label = NoReading
           /\ mem_ram_label = NoReading
           /\ net_stats_label = NA
        \/ /\ cpu_overall_label # NoReading
           /\ mem_ram_label # NoReading
           /\ net_stats_label # NA

SessionSampled == monitoring_active /\ status_var \in {"Monitoring...", "Error: ..."}

\* C15's floor alone: a cycle that runs with a finite interval schedules its
\* successor max(interval in whole ms, 500) ms later.
C15_SuccessorDelayFloored ==
    [][\A delay \in BagToSet(after_queue), cpu \in CpuReadings, mem \in MemReadings,
          io \in NetReadings :
        (/\ monitoring_active /\ float(interval_var).cls = "finite"
         /\ fire_update(delay, cpu, mem, io, "none"))
            => \E next \in {Max(MIN_REFRESH_MS, float(interval_var).v \div 10)} :
                 /\ next >= 500
                 /\ after_queue' = (after_queue (-) SetToBag({delay})) (+) SetToBag({next})]_vars

\* C15, as claimed: the successor of a cycle is scheduled max(interval, 500)
\* ms later, and no two consecutive cycles of a session are scheduled less
\* than 500 ms apart: once a cycle of the session has run, no callback is
\* pending that is due earlier than 500 ms after it was scheduled.
C15_CyclesAtLeastFloorApart ==
    /\ C15_SuccessorDelayFloored
    /\ [](SessionSampled => \A delay \in BagToSet(after_queue) : delay >= MIN_REFRESH_MS)

\* The pids of a sequence of processes or of records, in order.
Pids(seq) == [i \in 1..Len(seq) |-> seq[i].pid]

\* The enumerated processes whose read succeeds, in enumeration order.
Readable(procs) == SelectSeq(procs, LAMBDA proc : proc.raises = "none")

\* C16: the list get_processes_info returns holds no process whose read
\* raised NoSuchProcess, AccessDenied or ZombieProcess, and holds every other
\* enumerated process exactly once, in enumeration order; it is returned
\* whatever reads raised.
C16_FailedReadsAreDropped ==
    processes # <<>> =>
        LET built == processes[1] IN
        /\ Pids(built) = Pids(Readable(proc_table))
        /\ \A i \in 1..Len(proc_table) :
              proc_table[i].raises \in ProcErrors
                  => \A j \in 1..Len(built) : built[j].pid # proc_table[i].pid
        /\ \A i \in 1..Len(proc_table) :
              proc_table[i].raises = "none"
                  => Cardinality({j \in 1..Len(built) : built[j].pid = proc_table[i].pid}) = 1

C16_Witness ==
    /\ Len(proc_table) = 3
    /\ proc_table[1].raises = "none"
    /\ proc_table[2].raises = "NoSuchProcess"
    /\ proc_table[3].raises = "none"
    /\ processes # <<>>
    /\ Pids(processes[1]) = <<1, 3>>

\* C17, as claimed: every record get_processes_info returns has a numeric
\* CPU percent and a numeric memory percent, 0.0 where the OS reported None.
C17_RecordPercentsNumeric ==
    processes # <<>> =>
        \A i \in 1..Len(processes[1]) :
            /\ processes[1][i].cpu_percent # <<>>
            /\ processes[1][i].memory_percent # <<>>

\* C17, as amended: in every record the CPU percent is numeric, 0.0 where
\* the OS reported None and the reported value otherwise; the memory percent
\* is what the OS reported, None included; and every row
\* update_process_list_ui displays shows a numeric text for both, "0.0%"
\* where the record holds None.
C17_CpuDefaultedMemoryAtDisplay ==
    processes # <<>> =>
        LET built == processes[1]
            read == Readable(proc_table)
            rows == update_process_list_ui(proc_table) IN
        /\ Len(built) = Len(read) /\ Len(rows) = Len(read)
        /\ \A i \in 1..Len(built) :
            /\ built[i].cpu_percent =
                  IF read[i].cpu_percent = <<>> THEN <<0>> ELSE read[i].cpu_percent
            /\ built[i].memory_percent = read[i].memory_percent
            /\ rows[i].cpu_str \in {"0.0%", "5.0%"}
            /\ rows[i].mem_str \in {"0.0%", "7.0%"}
            /\ read[i].memory_percent = <<>> => rows[i].mem_str = "0.0%"

C17_Witness ==
    /\ processes # <<>>
    /\ Len(processes[1]) = 2
    /\ processes[1][1].cpu_percent = <<0>>
    /\ processes[1][1].memory_percent = <<>>
    /\ processes[1][2].cpu_percent = <<5>>
    /\ processes[1][2].memory_percent = <<7>>
    /\ proc_table[1].cpu_percent = <<>>

\* C18: while monitoring is not active (from stop_monitoring's signal until
\* the next successful start) no cycle runs: a pending callback that fires
\* only leaves the queue; it reads no probe into a label, appends to no
\* history, does not touch the baseline, the counter or the status and
\* schedules no successor; and no other step samples either.
C18_NoCycleWhileStopped ==
    /\ [][\A delay \in BagToSet(after_queue), cpu \in CpuReadings, mem \in MemReadings,
            io \in OneReading, raises \in Raising :
            (~monitoring_active /\ fire_update(delay, cpu, mem, io, raises))
                => /\ after_queue' = after_queue (-) SetToBag({delay})
                   /\ last_event' = "update: inactive"
                   /\ UNCHANGED <<globals, graphs, labels, status_var,
                                  process_update_counter>>]_vars
    /\ [][(~monitoring_active /\ ~monitoring_active') => UNCHANGED <<graphs, labels>>]_vars

C18_Witness ==
    /\ last_event = "update: inactive"
    /\ status_var = "Monitoring stopped. Ready."
    /\ after_queue = EmptyBag
    /\ cpu_graph.data_history[GRAPH_HISTORY_POINTS] = 50

\* C19: stop_monitoring on a running session always returns, and returns
\* with the session idle (monitoring_active clear, start enabled, stop
\* disabled, status "stopped"), whether the thread has ended or the join
\* timed out; the warning is logged exactly when the thread is still alive
\* after the join.
C19_StopReturnsIdle ==
    /\ [][stop_monitoring_join
            => /\ ~monitoring_active'
               /\ main_pc' = "mainloop"
               /\ start_button' = "normal" /\ stop_button' = "disabled"
               /\ interval_entry' = "normal" /\ disk_menu' = "normal"
               /\ status_var' = "Monitoring stopped. Ready."
               /\ (last_event' = "stop: thread unresponsive") <=> alive(monitoring_thread)
               /\ (last_event' = "stop: stopped") <=> ~alive(monitoring_thread)]_vars
    /\ [](main_pc = "join" => ENABLED stop_monitoring_join)

C19_Witness ==
    /\ last_event = "stop: thread unresponsive"
    /\ alive(monitoring_thread)
    /\ ~monitoring_active
    /\ start_button = "normal"
    /\ stop_button = "disabled"

C19_WitnessAcknowledged ==
    /\ last_event = "stop: stopped"
    /\ thread_pc[monitoring_thread] = "finished"
    /\ start_button = "normal"

\* A canvas holds exactly as many elements as its capacity.
FullWidth(g) == Len(g.data_history) = g.history_points

\* C20: from construction on, in every state, each history of the
\* application holds exactly `capacity` elements, and all of them are 0
\* until the first sample is appended.
C20_StableWidth ==
    /\ FullWidth(cpu_graph) /\ FullWidth(mem_graph) /\ FullWidth(canvas)
    /\ cpu_graph.history_points = GRAPH_HISTORY_POINTS
    /\ mem_graph.history_points = GRAPH_HISTORY_POINTS
    /\ cpu_overall_label = NoReading => cpu_graph.data_history = Zeros(GRAPH_HISTORY_POINTS)
    /\ mem_ram_label = NoReading => mem_graph.data_history = Zeros(GRAPH_HISTORY_POINTS)

C20_Witness ==
    /\ last_event = "update: error"
    /\ cpu_graph.data_history = Append(Zeros(GRAPH_HISTORY_POINTS - 1), 50)
    /\ mem_ram_label = NoReading
    /\ mem_graph.data_history = Zeros(GRAPH_HISTORY_POINTS)

Markers == {<<"error">>, <<"info">>}

\* C22: for every outcome of the sensor probe (it raises, returns None or an
\* empty table, sensors without entries, no CPU-labelled sensor, a label that
\* is None) get_cpu_temperatures returns a mapping that is never empty:
\* either one reason marker under 'error' or 'info' and nothing else, or
\* sensor labels with their degrees.
C22_TemperatureProbeTotal ==
    (returned # <<>> /\ call[1].fn = "get_cpu_temperatures") =>
        LET temps == returned[1] IN
        /\ DOMAIN temps # {}
        /\ \/ DOMAIN temps \in {{<<"error">>}, {<<"info">>}}
           \/ /\ DOMAIN temps \cap Markers = {}
              /\ \A k \in DOMAIN temps : temps[k] = 40
        /\ call[1].probe.outcome # "table" => DOMAIN temps = {<<"error">>}

C22_Witness ==
    /\ returned # <<>>
    /\ call[1].fn = "get_cpu_temperatures"
    /\ call[1].probe.outcome = "table"
    /\ Len(call[1].probe.table) = 2
    /\ call[1].probe.table[1].entries = <<>>
    /\ call[1].probe.table[2].name = "nvme"
    /\ Len(call[1].probe.table[2].entries) = 1
    /\ call[1].probe.table[2].entries[1].label = "Composite"
    /\ DOMAIN returned[1] = {<<"info">>}

\* The whole multiples of the unit in a count: b \div unit, for b >= 0.
WholeKiB(b) == b.gib * MiB + b.rest \div KiB
WholeMiB(b) == b.gib * KiB + b.rest \div MiB

\* C23: the unit is B for b < 1024, KB for 1024 <= b < 1024^2, MB for
\* 1024^2 <= b < 1024^3 and GB from 1024^3 on; B shows the count itself, and
\* the other units show b divided by the unit size with two decimals: the
\* value lies between the whole quotient and the next integer, is the exact
\* quotient for a multiple of the unit, and 500 gives "500 B", 2048 "2.00
\* KB", 5 * 1024^2 "5.00 MB" and 3 * 1024^3 "3.00 GB".
C23_UnitByPowersOf1024 ==
    (returned # <<>> /\ call[1].fn = "bytes_to_readable") =>
        LET b == call[1].b
            text == returned[1] IN
        /\ text.unit = "B"  <=> (b.gib < 0 \/ (b.gib = 0 /\ b.rest < 1024))
        /\ text.unit = "KB" <=> (b.gib = 0 /\ 1024 <= b.rest /\ b.rest < 1024 * 1024)
        /\ text.unit = "MB" <=> (b.gib = 0 /\ 1024 * 1024 <= b.rest)
        /\ text.unit = "GB" <=> b.gib >= 1
        /\ text.unit = "B" => text.count = b
        /\ text.unit = "KB" =>
              /\ 100 * WholeKiB(b) <= text.hundredths
              /\ text.hundredths <= 100 * (WholeKiB(b) + 1)
              /\ b.rest % 1024 = 0 => text.hundredths = 100 * WholeKiB(b)
              /\ 2 * (text.hundredths * 1024 - 100 * b.rest) \in -1024..1024
        /\ text.unit = "MB" =>
              /\ 100 * WholeMiB(b) <= text.hundredths
              /\ text.hundredths <= 100 * (WholeMiB(b) + 1)
              /\ b.rest % (1024 * 1024) = 0 => text.hundredths = 100 * WholeMiB(b)
        /\ text.unit = "GB" =>
              /\ 100 * b.gib <= text.hundredths
              /\ text.hundredths <= 100 * (b.gib + 1)
              /\ b.rest = 0 => text.hundredths = 100 * b.gib
        /\ b = Bytes(500) => text = [unit |-> "B", hundredths |-> 0, count |-> Bytes(500)]
        /\ b = Bytes(2048) => (text.unit = "KB" /\ text.hundredths = 200)
        /\ b = Bytes(5 * 1024 * 1024) => (text.unit = "MB" /\ text.hundredths = 500)
        /\ b = [gib |-> 3, rest |-> 0] => (text.unit = "GB" /\ text.hundredths = 300)

C23_Witness ==
    /\ returned # <<>>
    /\ call[1].fn = "bytes_to_readable"
    /\ call[1].b = Bytes(5 * 1024 * 1024 + 512 * 1024)
    /\ returned[1].unit = "MB"
    /\ returned[1].hundredths = 550

\* The number a group of decimal digits reads as.
RECURSIVE Number(_)
Number(digits) ==
    IF digits = <<>> THEN 0
    ELSE 10 * Number(SubSeq(digits, 1, Len(digits) - 1)) + digits[Len(digits)]

\* C24: the text of a non-negative duration reads as days d, hours h,
\* minutes m and seconds s with 0 <= h < 24, 0 <= m < 60, 0 <= s < 60 and
\* d*86400 + h*3600 + m*60 + s the duration's whole seconds; h, m and s are
\* two digits each, zero-padded, and d is unpadded; 1 day 2 h 3 min 4 s gives
\* "1d 02:03:04" and 45 s gives "0d 00:00:45".
C24_TimedeltaDecomposed ==
    (returned # <<>> /\ call[1].fn = "format_timedelta") =>
        LET td == call[1].td
            text == returned[1]
            d == Number(text.d)
            h == Number(text.h)
            m == Number(text.m)
            s == Number(text.s) IN
        /\ 0 <= h /\ h < 24 /\ 0 <= m /\ m < 60 /\ 0 <= s /\ s < 60
        /\ d * 86400 + h * 3600 + m * 60 + s = td.days * 86400 + td.seconds
        /\ Len(text.h) = 2 /\ Len(text.m) = 2 /\ Len(text.s) = 2
        /\ Len(text.d) >= 1 /\ (Len(text.d) > 1 => text.d[1] # 0)
        /\ td = [days |-> 1, seconds |-> 2 * 3600 + 3 * 60 + 4]
              => text = [d |-> <<1>>, h |-> <<0, 2>>, m |-> <<0, 3>>, s |-> <<0, 4>>]
        /\ td = [days |-> 0, seconds |-> 45]
              => text = [d |-> <<0>>, h |-> <<0, 0>>, m |-> <<0, 0>>, s |-> <<4, 5>>]

C24_Witness ==
    /\ returned # <<>>
    /\ call[1].fn = "format_timedelta"
    /\ call[1].td = [days |-> 12, seconds |-> 86399]
    /\ returned[1] = [d |-> <<1, 2>>, h |-> <<2, 3>>, m |-> <<5, 9>>, s |-> <<5, 9>>]

\* C25, as claimed: while monitoring is active at most one update callback
\* is pending, so one chain of cycles is live: every pending callback runs a
\* cycle and schedules its successor, so each one is a chain.
C25_OneCallbackChain ==
    monitoring_active => BagCardinality(after_queue) <= 1

\* C26, as claimed: at most one monitoring thread is alive in any state.
C26_OneThreadAlive ==
    Cardinality({t \in Threads : alive(t)}) <= 1


\* The number of sampled points a history holds: histories start as zeros and
\* every reading drawn by the specifications is positive.
SamplesHeld(g) ==
    Cardinality({i \in DOMAIN g.data_history : g.data_history[i] # 0})

\* C27, as claimed: between cycles the CPU history and the memory history
\* have received the same number of appends, so they hold the same number of
\* sampled points and equal indices come from the same cycle, also after a
\* cycle in which a probe raised.
C27_HistoriesInStep ==
    main_pc = "mainloop" => SamplesHeld(cpu_graph) = SamplesHeld(mem_graph)


\* C28, as claimed: the counter is the 0-based index of the cycle in its
\* session: every start resets it to 0 and every cycle of an active session
\* adds exactly one to it, and the cycle rebuilds the process tree exactly
\* when the counter it finds is a multiple of the refresh multiplier.
C28_RefreshCadence ==
    /\ [][\A delay \in BagToSet(after_queue), cpu \in CpuReadings, mem \in MemReadings,
            io \in OneReading, raises \in Raising :
            (monitoring_active /\ fire_update(delay, cpu, mem, io, raises))
                => /\ process_update_counter' = process_update_counter + 1
                   /\ process_tree' =
                        IF process_update_counter
                               % PROCESS_LIST_REFRESH_INTERVAL_MULTIPLIER = 0
                        THEN update_process_list_ui(proc_table)
                        ELSE process_tree]_vars
    /\ [][(~monitoring_active /\ monitoring_active') => process_update_counter' = 0]_vars


\* C29, as claimed: the window is never destroyed while monitoring_active is
\* still set: closing an active session either leaves the window open (the
\* user declined) or stops monitoring before the window is destroyed.
C29_NotDestroyedWhileActive ==
    main_pc = "destroyed" => ~monitoring_active


\* C30: a cycle of an active session that reaches its Disk section ends the
\* section in one of three outcomes.  With a placeholder selected the label
\* is the placeholder text and the bar is at 0 (the probe is not called); if
\* psutil.disk_usage raises, get_disk_usage returns None, the label reads
\* Error for the selected partition, the bar is at 0 and the cycle goes on to
\* publish the network totals, count itself and report "Monitoring...";
\* otherwise the label and the bar hold what the probe returned.
C30_DiskOutcomes ==
    [][\A delay \in BagToSet(after_queue), cpu \in CpuReadings, mem \in MemReadings,
         io \in OneReading, raises \in Outcomes \ {"cpu", "mem"} :
         (monitoring_active /\ fire_update(delay, cpu, mem, io, raises))
            => /\ disk_var \in Placeholders
                    => /\ disk_label' = DiskLabel("Disk: Select a partition", "", <<>>)
                       /\ disk_progress' = 0
               /\ (disk_var \notin Placeholders /\ raises = "disk")
                    => /\ disk_label' = DiskLabel("Error", disk_var, <<>>)
                       /\ disk_progress' = 0
                       /\ net_stats_label' = get_network_stats(network_stats_initial, io)
                       /\ process_update_counter' = process_update_counter + 1
                       /\ status_var' = "Monitoring..."
               /\ (disk_var \notin Placeholders /\ raises # "disk")
                    => /\ disk_label' = DiskLabel("usage", disk_var, <<DiskReading>>)
                       /\ disk_progress' = DiskReading.percent]_vars

C30_Witness ==
    /\ last_event = "update: sampled"
    /\ disk_var = "/data"
    /\ disk_label = DiskLabel("Error", "/data", <<>>)
    /\ disk_progress = 0
    /\ net_stats_label # NA
    /\ status_var = "Monitoring..."

\* The unselected outcome: a cycle has run with the placeholder selected.
C30_WitnessUnselected ==
    /\ last_event = "update: sampled"
    /\ disk_var \in Placeholders
    /\ cpu_overall_label # NoReading
    /\ disk_label = DiskLabel("Disk: Select a partition", "", <<>>)

====
